---- MODULE Spec2Model ----
(***************************************************************************)
(* Model of the MCP-to-skill converter: the MCPClientWrapper discovery     *)
(* client (mcp-client), the tool classifier and credential masking         *)
(* (skill-generator.ts, convert.ts) and the convert() run (convert.ts).    *)
(*                                                                         *)
(* Strings that the code inspects character by character (tool names,      *)
(* descriptions, command arguments) are tuples of one-character strings,   *)
(* so that the regular expressions of the source are computed, not assumed.*)
(***************************************************************************)
EXTENDS Integers, Sequences, FiniteSets, TLC

(***************************************************************************)
(* Bounds of the model.                                                    *)
(***************************************************************************)
\* longest tool list handed to categorizeTools
MaxTools == 3
\* longest argument list handed to maskSensitiveArgs
MaxArgs == 2

(***************************************************************************)
(* Characters and strings.                                                 *)
(***************************************************************************)
UpperCase == <<"A","B","C","D","E","F","G","H","I","J","K","L","M","N","O","P","Q","R","S","T","U","V","W","X","Y","Z">>
LowerCase == <<"a","b","c","d","e","f","g","h","i","j","k","l","m","n","o","p","q","r","s","t","u","v","w","x","y","z">>

IsUpper(c) == \E i \in DOMAIN UpperCase : UpperCase[i] = c
IsLower(c) == \E i \in DOMAIN LowerCase : LowerCase[i] = c
IsLetter(c) == IsUpper(c) \/ IsLower(c)
IsDigit(c) == c \in {"0","1","2","3","4","5","6","7","8","9"}

\* the lower-case letter of each upper-case letter
LowerOf ==
  [c \in { UpperCase[i] : i \in DOMAIN UpperCase } |->
     LowerCase[CHOOSE i \in DOMAIN UpperCase : UpperCase[i] = c]]

\* String.prototype.toLowerCase on one character (the case folding of the i flag)
ToLowerChar(c) == IF c \in DOMAIN LowerOf THEN LowerOf[c] ELSE c

\* String.prototype.toLowerCase
ToLower(s) == [i \in 1..Len(s) |-> ToLowerChar(s[i])]

\* s has the text p at position i (1-based)
HasAt(s, p, i) ==
  /\ i >= 1
  /\ i + Len(p) - 1 <= Len(s)
  /\ SubSeq(s, i, i + Len(p) - 1) = p

Contains(s, p) == \E i \in 1..(Len(s) - Len(p) + 1) : HasAt(s, p, i)
StartsWith(s, p) == HasAt(s, p, 1)

\* Array.prototype.join
RECURSIVE Join(_, _)
Join(list, sep) ==
  IF Len(list) = 0 THEN <<>>
  ELSE IF Len(list) = 1 THEN list[1]
  ELSE list[1] \o sep \o Join(Tail(list), sep)

\* String.prototype.split on a separator that is a character of class (runs
\* FALSE, as /[-_]/) or a run of such characters (runs TRUE, as /\s+/)
RECURSIVE split(_, _, _)
split(s, class, runs) ==
  IF \A i \in DOMAIN s : s[i] \notin class THEN << s >>
  ELSE LET i == CHOOSE j \in DOMAIN s :
                  s[j] \in class /\ \A k \in 1..(j - 1) : s[k] \notin class
           n == IF runs
                THEN CHOOSE m \in 1..(Len(s) - i + 1) :
                       /\ \A k \in i..(i + m - 1) : s[k] \in class
                       /\ (i + m > Len(s) \/ s[i + m] \notin class)
                ELSE 1
       IN  << SubSeq(s, 1, i - 1) >> \o split(SubSeq(s, i + n, Len(s)), class, runs)

(***************************************************************************)
(* Regular expressions of the source.  Every pattern of categoryRules is   *)
(* an alternation of literal texts, anchored at the start (^) or not, with *)
(* or without the i flag.                                                  *)
(***************************************************************************)
\* a regular expression literal; under the i flag its literal texts are
\* folded to lower case, as the subject of a test is
Pattern(alts, anchored, ignoreCase) ==
  [alts |-> IF ignoreCase THEN { ToLower(a) : a \in alts } ELSE alts,
   anchored |-> anchored, ignoreCase |-> ignoreCase]

\* RegExp.prototype.test (no g flag: no state is kept between tests)
test(pattern, s) ==
  LET subject == IF pattern.ignoreCase THEN ToLower(s) ELSE s
  IN  \E a \in pattern.alts :
        IF pattern.anchored THEN StartsWith(subject, a) ELSE Contains(subject, a)

(***************************************************************************)
(* maskSensitiveArgs: convert.ts:19-30, skill-generator.ts:15-26, 404-415. *)
(* Its regular expression, under the i flag, is: start of text; group 1,   *)
(* optional: -e and one or more \s; group 2: one or more of [A-Z_], one of *)
(* TOKEN SECRET KEY PASSWORD API_KEY AUTH, any number of [A-Z_]; an = sign; *)
(* group 3: one or more of any character; end of text.                     *)
(***************************************************************************)
SensitiveWords ==
  { <<"T","O","K","E","N">>, <<"S","E","C","R","E","T">>, <<"K","E","Y">>, <<"P","A","S","S","W","O","R","D">>, <<"A","P","I","_","K","E","Y">>, <<"A","U","T","H">> }

REDACTED == <<"*","*","*","R","E","D","A","C","T","E","D","*","*","*">>

\* \s
SpaceChars == {" ", "\t", "\n", "\r"}
IsSpace(c) == c \in SpaceChars
\* . (no s flag): any character but a line terminator
IsDot(c) == c \notin {"\n", "\r"}
\* [A-Z_] under the i flag
NameChars ==
  { UpperCase[i] : i \in DOMAIN UpperCase } \cup { LowerCase[i] : i \in DOMAIN LowerCase }
    \cup {"_"}
IsNameChar(c) == c \in NameChars

\* number of consecutive characters of the class from position i on
RunLen(s, i, class) ==
  IF i > Len(s) THEN 0
  ELSE CHOOSE n \in 0..(Len(s) - i + 1) :
         /\ \A k \in i..(i + n - 1) : s[k] \in class
         /\ (i + n > Len(s) \/ s[i + n] \notin class)

\* length of the text matched by group 1, (-e\s+)?, 0 when the group does not take part
PrefixLen(arg) ==
  IF HasAt(ToLower(arg), <<"-","e">>, 1) /\ RunLen(arg, 3, SpaceChars) >= 1
  THEN 2 + RunLen(arg, 3, SpaceChars)
  ELSE 0

\* group 2 matches the whole of name: name is made of [A-Z_] only and a
\* sensitive word starts at its second character or later
VarNameMatches(name) ==
  /\ \A i \in DOMAIN name : IsNameChar(name[i])
  /\ \E w \in SensitiveWords : \E i \in 2..Len(name) : HasAt(ToLower(name), ToLower(w), i)

\* arg.match(...): the groups, or NoMatch
NoMatch == [matched |-> FALSE]
envVarMatch(arg) ==
  LET p     == PrefixLen(arg)
      n     == RunLen(arg, p + 1, NameChars)
      name  == SubSeq(arg, p + 1, p + n)
      value == SubSeq(arg, p + n + 2, Len(arg))
  IN  IF /\ n >= 1
         /\ VarNameMatches(name)
         /\ p + n + 1 <= Len(arg)
         /\ arg[p + n + 1] = "="
         /\ Len(value) >= 1
         /\ \A i \in DOMAIN value : IsDot(value[i])
      THEN [matched |-> TRUE, prefix |-> SubSeq(arg, 1, p), varName |-> name, value |-> value]
      ELSE NoMatch

maskArg(arg) ==
  LET m == envVarMatch(arg)
  IN  IF m.matched THEN m.prefix \o m.varName \o <<"=">> \o REDACTED ELSE arg

\* a masking that leaves the sensitive arguments out of its result
maskSensitiveArgs_DropSensitive(args) ==
  SelectSeq(args, LAMBDA arg : ~envVarMatch(arg).matched)

maskSensitiveArgs(args) == [i \in DOMAIN args |-> maskArg(args[i])]

\* formatCommandForDocs: skill-generator.ts:31-34
formatCommandForDocs(command, args) ==
  command \o <<" ">> \o Join(maskSensitiveArgs(args), <<" ">>)

(***************************************************************************)
(* categorizeTools: skill-generator.ts:46-143 (first revision, with a Tags *)
(* rule) and skill-generator.ts:435-526 (second revision, tag folded into  *)
(* Workspaces).                                                            *)
(***************************************************************************)
Rule(name, directory, description, patterns, exclude) ==
  [name |-> name, directory |-> directory, description |-> description,
   patterns |-> patterns, exclude |-> exclude]

PublicRegistryPattern ==
  Pattern({ <<"g","e","t","_","l","a","t","e","s","t">>, <<"g","e","t","_","m","o","d","u","l","e","_","d","e","t","a","i","l","s">>, <<"g","e","t","_","p","o","l","i","c","y","_","d","e","t","a","i","l","s">>,
            <<"g","e","t","_","p","r","o","v","i","d","e","r","_","d","e","t","a","i","l","s">>, <<"g","e","t","_","p","r","o","v","i","d","e","r","_","c","a","p","a","b","i","l","i","t","i","e","s">>,
            <<"s","e","a","r","c","h","_","m","o","d","u","l","e","s">>, <<"s","e","a","r","c","h","_","p","o","l","i","c","i","e","s">>, <<"s","e","a","r","c","h","_","p","r","o","v","i","d","e","r","s">> }, TRUE, FALSE)

PublicRegistryRule ==
  Rule("Public Registry", "public-registry",
       "Tools for accessing public Terraform registry (modules, providers, policies)",
       << PublicRegistryPattern >>,
       << Pattern({ <<"p","r","i","v","a","t","e">> }, FALSE, TRUE) >>)

PrivateRegistryRule ==
  Rule("Private Registry", "private-registry",
       "Tools for accessing private Terraform modules and providers",
       << Pattern({ <<"p","r","i","v","a","t","e","_","m","o","d","u","l","e">>, <<"p","r","i","v","a","t","e","_","p","r","o","v","i","d","e","r">> }, FALSE, TRUE),
          Pattern({ <<"s","e","a","r","c","h","_","p","r","i","v","a","t","e">> }, FALSE, TRUE),
          Pattern({ <<"g","e","t","_","p","r","i","v","a","t","e">> }, FALSE, TRUE) >>,
       << >>)

RunsRule ==
  Rule("Runs", "runs", "Terraform run creation and monitoring",
       << Pattern({ <<"r","u","n">> }, FALSE, TRUE) >>,
       << Pattern({ <<"r","u","n","n","i","n","g">> }, FALSE, TRUE) >>)

VariablesRule ==
  Rule("Variables", "variables", "Variable and variable set management",
       << Pattern({ <<"v","a","r","i","a","b","l","e">> }, FALSE, TRUE), Pattern({ <<"v","a","r","i","a","b","l","e","_","s","e","t">> }, FALSE, TRUE) >>,
       << >>)

OrganizationRule ==
  Rule("Organization", "organization", "Organization and project listing",
       << Pattern({ <<"o","r","g">>, <<"p","r","o","j","e","c","t">> }, FALSE, TRUE),
          Pattern({ <<"l","i","s","t","_","t","e","r","r","a","f","o","r","m">> }, TRUE, FALSE) >>,
       << >>)

\* skill-generator.ts:50-96
categoryRules1 ==
  << PublicRegistryRule,
     PrivateRegistryRule,
     Rule("Workspaces", "workspaces", "Workspace creation, configuration, and management",
          << Pattern({ <<"w","o","r","k","s","p","a","c","e">> }, FALSE, TRUE) >>,
          << Pattern({ <<"v","a","r","i","a","b","l","e">> }, FALSE, TRUE), Pattern({ <<"t","a","g">> }, FALSE, TRUE) >>),
     RunsRule,
     VariablesRule,
     Rule("Tags", "tags", "Workspace tagging operations",
          << Pattern({ <<"t","a","g">> }, FALSE, TRUE) >>, << >>),
     OrganizationRule >>

\* a second revision whose Workspaces rule lost its exclude patterns
categoryRules2_NoExclude ==
  << PublicRegistryRule,
     PrivateRegistryRule,
     Rule("Workspaces", "workspaces", "Workspace creation, configuration, and management",
          << Pattern({ <<"w","o","r","k","s","p","a","c","e">> }, FALSE, TRUE), Pattern({ <<"t","a","g">> }, FALSE, TRUE) >>,
          << >>),
     RunsRule,
     VariablesRule,
     OrganizationRule >>

\* skill-generator.ts:439-479
categoryRules2 ==
  << PublicRegistryRule,
     PrivateRegistryRule,
     Rule("Workspaces", "workspaces", "Workspace creation, configuration, and management",
          << Pattern({ <<"w","o","r","k","s","p","a","c","e">> }, FALSE, TRUE), Pattern({ <<"t","a","g">> }, FALSE, TRUE) >>,
          << Pattern({ <<"v","a","r","i","a","b","l","e">> }, FALSE, TRUE) >>),
     RunsRule,
     VariablesRule,
     OrganizationRule >>

categoryRules(revision) == IF revision = 1 THEN categoryRules1 ELSE categoryRules2

\* pattern.test(tool.name) || (tool.description && pattern.test(tool.description));
\* an absent description and the empty description are both falsy
testTool(pattern, tool) ==
  \/ test(pattern, tool.name)
  \/ (tool.description # <<>> /\ test(pattern, tool.description))

\* rule.patterns.some(...)
matchesPattern(rule, tool) ==
  \E i \in DOMAIN rule.patterns : testTool(rule.patterns[i], tool)

\* rules whose exclude patterns are never consulted
matchesExclude_Never(rule, tool) == FALSE

\* rule.exclude?.some(...): undefined, which is falsy, for a rule without exclude
matchesExclude(rule, tool) ==
  \E i \in DOMAIN rule.exclude : testTool(rule.exclude[i], tool)

\* a rule that claims whatever it matches, its exclude patterns ignored
claims_IgnoringExclude(rule, tool) == matchesPattern(rule, tool)

\* if (matchesPattern && !matchesExclude)
claims(rule, tool) == matchesPattern(rule, tool) /\ ~matchesExclude(rule, tool)

\* an inner loop that stops at the first rule whose patterns match, claimed or not
RECURSIVE firstClaiming_StopAtMatch(_, _, _)
firstClaiming_StopAtMatch(rules, tool, i) ==
  IF i > Len(rules) THEN 0
  ELSE IF matchesPattern(rules[i], tool)
       THEN (IF matchesExclude(rules[i], tool) THEN 0 ELSE i)
  ELSE firstClaiming_StopAtMatch(rules, tool, i + 1)

\* for (const rule of categoryRules) from rule i on: the rule at which the loop
\* breaks, 0 when it runs to its end
RECURSIVE firstClaiming(_, _, _)
firstClaiming(rules, tool, i) ==
  IF i > Len(rules) THEN 0
  ELSE IF claims(rules[i], tool) THEN i
  ELSE firstClaiming(rules, tool, i + 1)

\* the inner loop without its break: the last claiming rule wins
claimingRule_NoBreak(rules, tool) ==
  IF \E i \in DOMAIN rules : claims(rules[i], tool)
  THEN CHOOSE i \in DOMAIN rules :
         claims(rules[i], tool) /\ \A j \in (i + 1)..Len(rules) : ~claims(rules[j], tool)
  ELSE 0

claimingRule(rules, tool) == firstClaiming(rules, tool, 1)

OtherCategory ==
  [name |-> "Other", directory |-> "other", description |-> "Additional tools", tools |-> <<>>]

\* a collection that puts a new category in front of the ones it holds
pushTool_NewestFirst(categories, template, tool) ==
  IF \E i \in DOMAIN categories : categories[i].directory = template.directory
  THEN [i \in DOMAIN categories |->
          IF categories[i].directory = template.directory
          THEN [categories[i] EXCEPT !.tools = Append(@, tool)]
          ELSE categories[i]]
  ELSE << [template EXCEPT !.tools = <<tool>>] >> \o categories

\* categories.has(dir) / categories.set(dir, {...}) / categories.get(dir).tools.push(tool)
\* on a Map, which keeps its keys in insertion order
pushTool(categories, template, tool) ==
  IF \E i \in DOMAIN categories : categories[i].directory = template.directory
  THEN [i \in DOMAIN categories |->
          IF categories[i].directory = template.directory
          THEN [categories[i] EXCEPT !.tools = Append(@, tool)]
          ELSE categories[i]]
  ELSE Append(categories, [template EXCEPT !.tools = <<tool>>])

\* an outer loop that forgets the tools no rule claims
categorizeTool_NoFallback(categories, rules, tool) ==
  LET r == claimingRule(rules, tool)
  IN  IF r # 0
      THEN pushTool(categories,
                    [name |-> rules[r].name, directory |-> rules[r].directory,
                     description |-> rules[r].description, tools |-> <<>>],
                    tool)
      ELSE categories

\* one iteration of the outer loop
categorizeTool(categories, rules, tool) ==
  LET r == claimingRule(rules, tool)
  IN  IF r # 0
      THEN pushTool(categories,
                    [name |-> rules[r].name, directory |-> rules[r].directory,
                     description |-> rules[r].description, tools |-> <<>>],
                    tool)
      ELSE pushTool(categories, OtherCategory, tool)

RECURSIVE categorizeFrom(_, _, _)
categorizeFrom(categories, rules, tools) ==
  IF tools = <<>> THEN categories
  ELSE categorizeFrom(categorizeTool(categories, rules, Head(tools)), rules, Tail(tools))

\* the state of categorizeTools applied to a tool list
VARIABLES
  fnTools,        \* the argument tools
  fnRevision,     \* which revision of skill-generator.ts is called
  fnCategories,   \* the categories returned by the latest call
  fnPc            \* "ready" | "done" (called once) | "again" (called twice)

\* a categories Map that outlives the call: a call starts from what the call
\* before it left
categorizeTools_SharedMap(tools, revision) ==
  categorizeFrom(fnCategories, categoryRules(revision), tools)

\* a categorizer that registers the Other category before it reads the tools
categorizeTools_OtherFirst(tools, revision) ==
  categorizeFrom(<< OtherCategory >>, categoryRules(revision), tools)

\* const categories = new Map() ... return Array.from(categories.values()):
\* every call starts from an empty Map of its own; the rules and their
\* patterns are literals without the g flag and keep no state between calls
categorizeTools(tools, revision) == categorizeFrom(<<>>, categoryRules(revision), tools)

(***************************************************************************)
(* Inputs: the tools a server may expose and the arguments a command line  *)
(* may carry.                                                              *)
(***************************************************************************)
Tool(name, description) == [name |-> name, description |-> description]

ToolCatalogue ==
  << Tool(<<"c","r","e","a","t","e","_","w","o","r","k","s","p","a","c","e">>, <<>>),
     Tool(<<"l","i","s","t","_","w","o","r","k","s","p","a","c","e","_","v","a","r","i","a","b","l","e","s">>, <<"L","i","s","t"," ","v","a","r","i","a","b","l","e","s">>),
     Tool(<<"c","r","e","a","t","e","_","w","o","r","k","s","p","a","c","e","_","t","a","g","s">>, <<>>),
     Tool(<<"g","e","t","_","l","a","t","e","s","t","_","m","o","d","u","l","e","_","v","e","r","s","i","o","n">>, <<>>),
     Tool(<<"s","e","a","r","c","h","_","p","r","i","v","a","t","e","_","m","o","d","u","l","e","s">>, <<>>),
     Tool(<<"g","e","t","_","r","u","n","n","i","n","g","_","j","o","b","s">>, <<>>),
     Tool(<<"c","r","e","a","t","e","_","r","u","n">>, <<"C","r","e","a","t","e","s"," ","a"," ","r","u","n"," ","i","n"," ","a"," ","W","o","r","k","s","p","a","c","e">>),
     Tool(<<"l","i","s","t","_","t","e","r","r","a","f","o","r","m","_","o","r","g","s">>, <<>>),
     Tool(<<"e","c","h","o">>, <<"E","c","h","o"," ","t","h","e"," ","i","n","p","u","t">>),
     Tool(<<"G","e","t","_","L","a","t","e","s","t","_","M","o","d","u","l","e","_","V","e","r","s","i","o","n">>, <<>>),
     Tool(<<"l","i","s","t","_","p","r","o","j","e","c","t","_","w","o","r","k","s","p","a","c","e","_","r","u","n","s">>, <<>>) >>

ArgCatalogue ==
  << <<"T","F","E","_","T","O","K","E","N","=","a","b","c","1","2","3">>,
     <<"-","e"," ","T","F","E","_","T","O","K","E","N","=","a","b","c","1","2","3">>,
     <<"T","O","K","E","N","=","a","b","c","1","2","3">>,
     <<"t","f","e","_","t","o","k","e","n","=","a","b","c","1","2","3">>,
     <<"M","Y","_","A","P","I","_","K","E","Y","=","k","9">>,
     <<"D","B","2","_","P","A","S","S","W","O","R","D","=","h","u","n","t","e","r","2">>,
     <<"P","A","T","H","=","/","u","s","r","/","b","i","n">>,
     <<"M","Y","_","S","E","C","R","E","T","=">>,
     <<"-","y">> >>

\* the sequences over 1..n of length at most k in which no element occurs twice
DistinctSeqs(n, k) ==
  { s \in UNION { [1..m -> 1..n] : m \in 0..k } :
      \A i, j \in DOMAIN s : i # j => s[i] # s[j] }

\* tool lists with unique names, as listTools hands them to categorizeTools
ToolLists ==
  { [i \in DOMAIN s |-> ToolCatalogue[s[i]]] :
      s \in DistinctSeqs(Len(ToolCatalogue), MaxTools) }

ArgLists ==
  { [i \in DOMAIN s |-> ArgCatalogue[s[i]]] :
      s \in UNION { [1..m -> DOMAIN ArgCatalogue] : m \in 0..MaxArgs } }

\* the command lines of the conversion specification: the server command with
\* its arguments as one string, then the output directory; or too few of them
CommandLine(args) == Join(<< <<"d","o","c","k","e","r">> >> \o args, <<" ">>)
OutputDir == <<".","/","o","u","t">>
ArgVectors ==
  { <<>>, << CommandLine(<<>>) >> } \cup { << CommandLine(a), OutputDir >> : a \in ArgLists }

(***************************************************************************)
(* The MCP server behind the stdio transport: its answer to a tools/list   *)
(* request is a function of the request's cursor.                          *)
(***************************************************************************)
\* the value undefined, and a string value, of a cursor
Undefined == [undefined |-> TRUE]
Str(s) == [string |-> s]

\* a test that takes every string for a cursor, the empty one included
Truthy_AnyString(cursor) == cursor # Undefined

\* ToBoolean of a cursor: undefined and the empty string are falsy
Truthy(cursor) == cursor # Undefined /\ cursor.string # ""

Cursors == { Str("c1"), Str("c2") }
RequestCursors == { Undefined } \cup Cursors
NextCursors == { Undefined, Str("") } \cup Cursors

\* { tools?, nextCursor? }
Response(hasTools, tools, nextCursor) ==
  [hasTools |-> hasTools, tools |-> tools, nextCursor |-> nextCursor]

Page0 == << ToolCatalogue[1], ToolCatalogue[2] >>
Page1 == << ToolCatalogue[6] >>
Page2 == << ToolCatalogue[7], ToolCatalogue[9] >>

PageOf(cursor) ==
  IF cursor = Undefined THEN Page0 ELSE IF cursor = Str("c1") THEN Page1 ELSE Page2

\* the servers of the client specification: every linking of the three pages,
\* the page behind c1 with or without a tools field
Servers ==
  { [c \in RequestCursors |->
       Response(c # Str("c1") \/ h, IF c # Str("c1") \/ h THEN PageOf(c) ELSE <<>>, next[c])] :
       next \in [RequestCursors -> NextCursors], h \in BOOLEAN }

\* a server without tools
ServerNoTools == [c \in RequestCursors |-> Response(TRUE, <<>>, Undefined)]
\* one page, no cursor
ServerOnePage == [c \in RequestCursors |-> Response(TRUE, PageOf(c), Undefined)]
\* three pages linked by c1 and c2
ServerThreePages ==
  [c \in RequestCursors |->
     Response(TRUE, PageOf(c),
              IF c = Undefined THEN Str("c1") ELSE IF c = Str("c1") THEN Str("c2")
              ELSE Undefined)]
\* the cursor c1 on every page
ServerSameCursor == [c \in RequestCursors |-> Response(TRUE, PageOf(c), Str("c1"))]

\* the servers of the conversion specification
ServerCatalogue == { ServerNoTools, ServerOnePage, ServerThreePages, ServerSameCursor }

(***************************************************************************)
(* generateSkillMarkdown: the section it writes for one tool, with         *)
(* formatSchemaForDocs (skill-generator.ts:148-171) and the declaration    *)
(* name (skill-generator.ts:230-233, 613-616).  A schema is a JSON value   *)
(* received from the server, or undefined when the tool carries none.      *)
(***************************************************************************)
\* most properties in a schema of the model
MaxProps == 2

JsUndefined == [kind |-> "undefined"]
JsNull == [kind |-> "null"]
JsNumber(n) == [kind |-> "number", number |-> n]
JsString(chars) == [kind |-> "string", chars |-> chars]
JsArray(items) == [kind |-> "array", items |-> items]
\* an object: its own properties, in insertion order
JsObject(entries) == [kind |-> "object", entries |-> entries]
Entry(key, value) == [key |-> key, value |-> value]

\* ToBoolean
ToBoolean(v) ==
  CASE v.kind \in {"undefined", "null"} -> FALSE
    [] v.kind = "number" -> v.number # 0
    [] v.kind = "string" -> v.chars # <<>>
    [] OTHER -> TRUE

\* v.key can be evaluated: reading a property of undefined or null is a TypeError
CanRead(v) == v.kind \notin {"undefined", "null"}

\* v.key, for a key that is no index and no built-in member
Get(v, key) ==
  IF v.kind = "object" /\ \E i \in DOMAIN v.entries : v.entries[i].key = key
  THEN v.entries[CHOOSE i \in DOMAIN v.entries : v.entries[i].key = key].value
  ELSE JsUndefined

\* the decimal digits of an index below ten
IndexKey(i) == << <<"0","1","2","3","4","5","6","7","8","9">>[i] >>

\* Object.entries(v) of a truthy v
ObjectEntries(v) ==
  CASE v.kind = "object" -> v.entries
    [] v.kind = "array" -> [i \in DOMAIN v.items |-> Entry(IndexKey(i), v.items[i])]
    [] v.kind = "string" -> [i \in DOMAIN v.chars |-> Entry(IndexKey(i), JsString(<< v.chars[i] >>))]
    [] OTHER -> <<>>

\* v.includes is a function: Array.prototype.includes or String.prototype.includes
HasIncludes(v) == v.kind \in {"array", "string"}

\* v.includes(text)
includes(v, text) ==
  IF v.kind = "array"
  THEN \E i \in DOMAIN v.items : v.items[i] = JsString(text)
  ELSE Contains(v.chars, text)

\* the text of a value in a template literal
ToText(v) ==
  CASE v.kind = "string" -> v.chars
    [] v.kind = "number" -> IndexKey(v.number + 1)
    [] OTHER -> <<"[","o","b","j","e","c","t"," ","O","b","j","e","c","t","]">>

PROPERTIES == <<"p","r","o","p","e","r","t","i","e","s">>
REQUIRED == <<"r","e","q","u","i","r","e","d">>
TYPE == <<"t","y","p","e">>
DESCRIPTION == <<"d","e","s","c","r","i","p","t","i","o","n">>

\* the character U+0060, which delimits inline code in Markdown
GraveAccent == "GRAVE ACCENT"

\* the outcome of a call: the text it returned, or an exception
Returned(text) == [threw |-> FALSE, text |-> text]
ThrewTypeError == [threw |-> TRUE, text |-> <<>>]

\* one iteration of the loop over Object.entries(properties): it throws on a
\* required without includes and on a property value that is null
iterationThrows(required, entry) == ~HasIncludes(required) \/ ~CanRead(entry.value)

\* the lines one iteration pushes
iterationLines(required, entry) ==
  LET prop           == entry.value
      requiredMarker == IF includes(required, entry.key) THEN <<" ","(","r","e","q","u","i","r","e","d",")">> ELSE <<" ","(","o","p","t","i","o","n","a","l",")">>
      type           == IF ToBoolean(Get(prop, TYPE)) THEN Get(prop, TYPE) ELSE JsString(<<"a","n","y">>)
      description    == IF ToBoolean(Get(prop, DESCRIPTION)) THEN Get(prop, DESCRIPTION)
                        ELSE JsString(<<>>)
  IN  << <<"-"," ",GraveAccent>> \o entry.key \o <<GraveAccent,":"," ">> \o ToText(type)
           \o requiredMarker >>
        \o (IF ToBoolean(description) THEN << <<" "," ">> \o ToText(description) >> ELSE <<>>)

RECURSIVE Flatten(_)
Flatten(lists) == IF lists = <<>> THEN <<>> ELSE Head(lists) \o Flatten(Tail(lists))

\* formatSchemaForDocs(schema)
formatSchemaForDocs(schema) ==
  IF ~ToBoolean(schema) \/ ~ToBoolean(Get(schema, PROPERTIES))
  THEN Returned(<<"N","o"," ","p","a","r","a","m","e","t","e","r","s">>)
  ELSE LET properties == Get(schema, PROPERTIES)
           required   == IF ToBoolean(Get(schema, REQUIRED)) THEN Get(schema, REQUIRED)
                         ELSE JsArray(<<>>)
           entries    == ObjectEntries(properties)
       IN  IF \E i \in DOMAIN entries : iterationThrows(required, entries[i])
           THEN ThrewTypeError
           ELSE Returned(Join(Flatten([i \in DOMAIN entries |->
                                         iterationLines(required, entries[i])]),
                              <<"\n">>))

\* if (categories && categories.length > 0): the category sections and the
\* import example of the first category, else the flat tool list
usesCategories(categories) == categories # <<>>

\* const exampleTool = categories[0].tools[0]: undefined for a first category
\* without tools, and exampleTool.name then throws a TypeError
exampleTool(categories) ==
  IF categories[1].tools # <<>> THEN categories[1].tools[1] ELSE JsUndefined

\* the upper-case letter of each lower-case letter
UpperOf ==
  [c \in { LowerCase[i] : i \in DOMAIN LowerCase } |->
     UpperCase[CHOOSE i \in DOMAIN LowerCase : LowerCase[i] = c]]

\* String.prototype.toUpperCase on one character
ToUpperChar(c) == IF c \in DOMAIN UpperOf THEN UpperOf[c] ELSE c

\* part.charAt(0).toUpperCase() + part.slice(1)
capitalize(part) ==
  IF part = <<>> THEN <<>> ELSE << ToUpperChar(part[1]) >> \o Tail(part)

\* a split on the underscore alone
NameSeparators_Underscore == {"_"}

\* the separators of /[-_]/
NameSeparators == {"-", "_"}

\* tool.name.split(/[-_]/).map(...).join("")
interfaceName(name) ==
  LET parts == split(name, NameSeparators, FALSE)
  IN  Flatten([i \in DOMAIN parts |-> capitalize(parts[i])])

\* the tool names of the specification of the tool section
NameCatalogue ==
  { <<"g","e","t","_","r","u","n">>, <<"g","e","t","-","r","u","n">>, <<"g","e","t",".","r","u","n">>, <<"g","e","t","_","_","r","u","n">>, <<"c","r","e","a","t","e","_","w","o","r","k","s","p","a","c","e">>, <<"g","e","t","R","u","n">> }

\* the property values of the schemas: null, a string, and objects with and
\* without a type and a description
PropValues ==
  { JsNull, JsString(<<"x">>), JsObject(<<>>),
    JsObject(<< Entry(TYPE, JsString(<<"s","t","r","i","n","g">>)) >>),
    JsObject(<< Entry(TYPE, JsString(<<"f","r","o","b","n","i","c","a","t","e">>)), Entry(DESCRIPTION, JsString(<<"d">>)) >>),
    JsObject(<< Entry(TYPE, JsNull) >>) }

PropNames == << <<"a">>, <<"b">>, <<"c">>, <<"d">> >>

\* the values of properties: missing, null, a string, an array, or an object
\* of up to MaxProps properties
PropertiesValues ==
  { JsUndefined, JsNull, JsString(<<"a","b">>), JsArray(<< JsNull >>) } \cup
  { JsObject([i \in 1..n |-> Entry(PropNames[i], f[i])]) :
      n \in 0..MaxProps, f \in [1..MaxProps -> PropValues] }

\* the values of required: missing, an array of names, a string, a number
RequiredValues ==
  { JsUndefined, JsArray(<< JsString(<<"a">>) >>), JsString(<<"a">>), JsNumber(1) }

\* an object without the properties whose value is undefined
ObjectOf(entries) == JsObject(SelectSeq(entries, LAMBDA e : e.value # JsUndefined))

\* the inputSchema values of the specification of the tool section
Schemas ==
  { JsUndefined, JsNull, JsString(<<"x">>) } \cup
  { ObjectOf(<< Entry(TYPE, JsString(<<"o","b","j","e","c","t">>)), Entry(PROPERTIES, p), Entry(REQUIRED, r) >>) :
      p \in PropertiesValues, r \in RequiredValues }

\* the section of one tool
VARIABLES
  mdTool,         \* the tool: its name and its inputSchema
  mdOut,          \* what the section holds of it, or the exception
  mdPc            \* "ready" | "done"

\* the state of maskSensitiveArgs applied to an argument list, and then to
\* the list it returned
VARIABLES
  maskInput,      \* the array args of the caller
  maskOutput,     \* the array the call returned
  maskAgain,      \* the array returned by the call on that result
  maskPc          \* "ready" | "once" | "twice"

(***************************************************************************)
(* State.                                                                  *)
(***************************************************************************)
VARIABLES
  \* MCPClientWrapper
  connected,      \* this.connected
  transport,      \* this.transport: NullTransport or the StdioClientTransport created last
  open,           \* the SDK client holds a transport that completed its handshake
  calls,          \* the calls made on the wrapper, each an async method invocation
  server,         \* the server the transport talks to
  \* convert()
  pc,             \* position of convert(), "idle" when no conversion runs
  argv,           \* process.argv.slice(2), <<>> when no conversion runs
  options,        \* const options: Null before parseArgs, then its result
  maskedArgs,     \* const maskedArgs
  console,        \* the "Server command:" line written to the console
  client,         \* let client: "undefined" or "wrapper"
  tools,          \* const tools
  categories,     \* const categories
  typesContentMap, \* const typesContentMap
  metadata,       \* const metadata
  package,        \* the category directories of the written package
  docs,           \* the **Command:** line of SKILL.md and README.md
  exitCode        \* -1 while the process runs, then its exit code

maskVars == << maskInput, maskOutput, maskAgain, maskPc >>
fnVars == << fnTools, fnRevision, fnCategories, fnPc, mdTool, mdOut, mdPc, maskVars >>
clientVars == << connected, transport, open, calls, server >>
convertVars ==
  << pc, argv, options, maskedArgs, console, client, tools, categories,
     typesContentMap, metadata, package, docs, exitCode >>
vars == << fnVars, clientVars, convertVars >>

(***************************************************************************)
(* MCPClientWrapper: mcp-client (src/unnamed/part_000:20-114).  Every      *)
(* method is async: a call runs to its first await in one step, and each   *)
(* settlement of the awaited SDK promise is a step of its own.             *)
(***************************************************************************)
\* cap on the tools/list requests of one listTools call (the loop has none)
MaxRequests == 4
\* cap on the calls made on one wrapper
MaxCalls == 3

AlreadyConnected == "Client is already connected"
NotConnected == "Client is not connected. Call connect() first."

\* this.transport = null as any
NullTransport == [id |-> 0, command |-> <<>>, args |-> <<>>]

\* an invocation of connect, listTools or disconnect; guardConnected, requests,
\* responses and transport record what the invocation saw and did
NewCall(op) ==
  [op |-> op, pc |-> "await", error |-> "none", guardConnected |-> connected,
   cursor |-> Undefined, allTools |-> <<>>, requests |-> <<>>, responses |-> <<>>,
   result |-> <<>>, transport |-> 0]

Threw(call, error) == [call EXCEPT !.pc = "threw", !.error = error]

TransportsCreated == Cardinality({ i \in DOMAIN calls : calls[i].transport # 0 })

\* if (this.connected) of connect
connectGuard == connected

\* connect(command, args) up to await this.client.connect(this.transport)
connect(command, args) ==
  IF connectGuard
  THEN /\ calls' = Append(calls, Threw(NewCall("connect"), AlreadyConnected))
       /\ UNCHANGED << connected, transport, open, server >>
  ELSE /\ transport' = [id |-> TransportsCreated + 1, command |-> command, args |-> args]
       /\ calls' = Append(calls, [NewCall("connect") EXCEPT !.transport = TransportsCreated + 1])
       /\ UNCHANGED << connected, open, server >>

\* await this.client.connect(this.transport) resolves; this.connected = true
HandshakeResolve(c) ==
  /\ calls[c].op = "connect" /\ calls[c].pc = "await"
  /\ connected' = TRUE
  /\ open' = TRUE
  /\ calls' = [calls EXCEPT ![c].pc = "returned"]
  /\ UNCHANGED << transport, server >>

\* await this.client.connect(this.transport) rejects: connect throws
HandshakeReject(c) ==
  /\ calls[c].op = "connect" /\ calls[c].pc = "await"
  /\ calls' = [calls EXCEPT ![c] = Threw(@, "ConnectionError")]
  /\ UNCHANGED << connected, transport, open, server >>

\* listTools without its guard
listToolsGuard_Missing == FALSE

\* if (!this.connected) of listTools
listToolsGuard == ~connected

\* a listTools whose cursor is a field of the wrapper: a call starts from the
\* cursor that the listTools call before it was left with
listTools_SharedCursor ==
  LET earlier == { c \in DOMAIN calls : calls[c].op = "listTools" /\ calls[c].requests # <<>> }
      latest  == CHOOSE c \in earlier : \A d \in earlier : d <= c
      start   == IF earlier # {} /\ Truthy(calls[latest].cursor)
                 THEN calls[latest].cursor ELSE Undefined
  IN  IF listToolsGuard
      THEN /\ calls' = Append(calls, Threw(NewCall("listTools"), NotConnected))
           /\ UNCHANGED << connected, transport, open, server >>
      ELSE /\ calls' = Append(calls, [NewCall("listTools") EXCEPT !.cursor = start,
                                                                  !.requests = << start >>])
           /\ UNCHANGED << connected, transport, open, server >>

\* listTools() up to the first await this.client.listTools({ cursor })
listTools ==
  IF listToolsGuard
  THEN /\ calls' = Append(calls, Threw(NewCall("listTools"), NotConnected))
       /\ UNCHANGED << connected, transport, open, server >>
  ELSE /\ calls' = Append(calls, [NewCall("listTools") EXCEPT !.requests = << Undefined >>])
       /\ UNCHANGED << connected, transport, open, server >>

\* a loop body that keeps only the page it received last
pushTools_Overwrite(allTools, response) ==
  IF response.hasTools THEN response.tools ELSE allTools

\* if (response.tools) allTools.push(...response.tools)
pushTools(allTools, response) ==
  IF response.hasTools THEN allTools \o response.tools ELSE allTools

\* a loop that asks for the page behind c1 whatever cursor the response named
nextCursorOf_Fixed(response) ==
  IF Truthy(response.nextCursor) THEN Str("c1") ELSE response.nextCursor

\* cursor = response.nextCursor
nextCursorOf(response) == response.nextCursor

\* a loop whose condition never fails
loopAgain_Always(cursor) == TRUE

\* while (cursor)
loopAgain(cursor) == Truthy(cursor)

\* a response to the pending tools/list request arrives: the rest of the loop
\* body, then either the next request or the return
ListToolsResponse(c) ==
  LET call     == calls[c]
      response == server[call.cursor]
      all      == pushTools(call.allTools, response)
      next     == nextCursorOf(response)
  IN  /\ call.op = "listTools" /\ call.pc = "await"
      /\ open
      /\ loopAgain(next) => Len(call.requests) < MaxRequests
      /\ calls' = [calls EXCEPT ![c] =
           IF loopAgain(next)
           THEN [call EXCEPT !.allTools = all, !.cursor = next,
                             !.responses = Append(@, response),
                             !.requests = Append(@, next)]
           ELSE [call EXCEPT !.allTools = all, !.cursor = next,
                             !.responses = Append(@, response),
                             !.pc = "returned", !.result = all]]
      /\ UNCHANGED << connected, transport, open, server >>

\* the pending tools/list request fails: listTools throws, allTools is dropped
ListToolsReject(c) ==
  /\ calls[c].op = "listTools" /\ calls[c].pc = "await"
  /\ calls' = [calls EXCEPT ![c] = Threw(@, "RequestError")]
  /\ UNCHANGED << connected, transport, open, server >>

\* disconnect() up to await this.client.close()
disconnect ==
  IF connected
  THEN /\ calls' = Append(calls, NewCall("disconnect"))
       /\ UNCHANGED << connected, transport, open, server >>
  ELSE /\ calls' = Append(calls, [NewCall("disconnect") EXCEPT !.pc = "returned"])
       /\ UNCHANGED << connected, transport, open, server >>

\* await this.client.close() resolves; this.connected = false
CloseResolve(c) ==
  /\ calls[c].op = "disconnect" /\ calls[c].pc = "await"
  /\ connected' = FALSE
  /\ open' = FALSE
  /\ calls' = [calls EXCEPT ![c].pc = "returned"]
  /\ UNCHANGED << transport, server >>

\* await this.client.close() rejects: disconnect throws, connected stays true
CloseReject(c) ==
  /\ calls[c].op = "disconnect" /\ calls[c].pc = "await"
  /\ calls' = [calls EXCEPT ![c] = Threw(@, "CloseError")]
  /\ UNCHANGED << connected, transport, open, server >>

\* isConnected()
isConnected == connected

(***************************************************************************)
(* Idle values of the parts a specification does not exercise.             *)
(***************************************************************************)
NoOptions == [serverCommand |-> <<>>, serverArgs |-> <<>>]
NoMetadata == [name |-> "", serverCommand |-> <<>>, serverArgs |-> <<>>]
NoPackage == [documented |-> <<>>, types |-> <<>>]

NoTool == [name |-> <<>>, inputSchema |-> JsUndefined]
NoSection == [threw |-> FALSE, parameters |-> <<>>, interfaceName |-> <<>>]

DocsIdle == mdTool = NoTool /\ mdOut = NoSection /\ mdPc = "idle"

MaskIdle == maskInput = <<>> /\ maskOutput = <<>> /\ maskAgain = <<>> /\ maskPc = "idle"

FnIdle ==
  /\ fnTools = <<>> /\ fnRevision = 1 /\ fnCategories = <<>> /\ fnPc = "idle"
  /\ DocsIdle
  /\ MaskIdle

ClientInit ==
  /\ connected = FALSE
  /\ transport = NullTransport
  /\ open = FALSE
  /\ calls = <<>>

ConvertIdle ==
  /\ pc = "idle" /\ argv = <<>> /\ options = NoOptions /\ maskedArgs = <<>> /\ console = <<>>
  /\ client = "undefined" /\ tools = <<>> /\ categories = <<>>
  /\ typesContentMap = <<>> /\ metadata = NoMetadata
  /\ package = NoPackage
  /\ docs = <<>> /\ exitCode = -1

(***************************************************************************)
(* Specification of categorizeTools: every tool list of the catalogue is   *)
(* classified by either revision.                                          *)
(***************************************************************************)
InitCat ==
  /\ fnTools \in ToolLists
  /\ fnRevision \in {1, 2}
  /\ fnCategories = <<>>
  /\ fnPc = "ready"
  /\ DocsIdle
  /\ MaskIdle
  /\ ClientInit /\ server = ServerNoTools
  /\ ConvertIdle

\* a call categorizeTools(tools): the first one, then the same call again
CategorizeTools ==
  /\ fnPc \in {"ready", "done"}
  /\ fnCategories' = categorizeTools(fnTools, fnRevision)
  /\ fnPc' = IF fnPc = "ready" THEN "done" ELSE "again"
  /\ UNCHANGED << fnTools, fnRevision, mdTool, mdOut, mdPc, maskVars, clientVars, convertVars >>

NextCat == CategorizeTools

SpecCat == InitCat /\ [][NextCat]_vars

\* the places (category index, position) at which the returned categories hold the tool
PlacesOf(cats, tool) ==
  { << c, k >> \in (DOMAIN cats) \X (1..MaxTools) :
      k <= Len(cats[c].tools) /\ cats[c].tools[k] = tool }

\* the directory of the returned category that holds the tool
DirectoryOf(cats, tool) ==
  cats[(CHOOSE p \in PlacesOf(cats, tool) : TRUE)[1]].directory

RECURSIVE SumLen(_)
SumLen(cats) == IF cats = <<>> THEN 0 ELSE Len(Head(cats).tools) + SumLen(Tail(cats))

FnRules == categoryRules(fnRevision)

\* C1: the categories returned for a tool list with unique names hold every
\* input tool exactly once: none is omitted, none is in two categories, none
\* is twice in one category, and the categories hold nothing else.
C1_Partition ==
  fnPc = "done" =>
    /\ \A i \in DOMAIN fnTools : Cardinality(PlacesOf(fnCategories, fnTools[i])) = 1
    /\ SumLen(fnCategories) = Len(fnTools)

C1_Witness ==
  /\ fnPc = "done"
  /\ Len(fnTools) = 3
  /\ Len(fnCategories) = 2
  /\ \E c \in DOMAIN fnCategories : fnCategories[c].directory = "other"

\* position of a tool in the catalogue
CatalogueIndex(tool) == CHOOSE k \in DOMAIN ToolCatalogue : ToolCatalogue[k] = tool

\* for each revision and catalogue tool, the rules that match the tool
MatchingTable ==
  [rev \in {1, 2} |-> [k \in DOMAIN ToolCatalogue |->
     { r \in DOMAIN categoryRules(rev) :
         matchesPattern(categoryRules(rev)[r], ToolCatalogue[k]) }]]

\* for each revision and catalogue tool, the rules that are excluded for the tool
ExcludedTable ==
  [rev \in {1, 2} |-> [k \in DOMAIN ToolCatalogue |->
     { r \in DOMAIN categoryRules(rev) :
         matchesExclude(categoryRules(rev)[r], ToolCatalogue[k]) }]]

\* the rules of the revision under test that match the tool
Matching(tool) == MatchingTable[fnRevision][CatalogueIndex(tool)]

\* the rules of the revision under test that are excluded for the tool
Excluded(tool) == ExcludedTable[fnRevision][CatalogueIndex(tool)]

\* the rules that match the tool and are not excluded for it
Unexcluded(tool) == Matching(tool) \ Excluded(tool)

\* C2, as stated: a tool that matches rules A and B, A before B, is in A's category.
C2_Original ==
  fnPc = "done" =>
    \A i \in DOMAIN fnTools : \A a, b \in Matching(fnTools[i]) :
      a < b => DirectoryOf(fnCategories, fnTools[i]) = FnRules[a].directory

\* C2, amended: a tool that matches rules A and B, A before B, and is not
\* excluded by A is never in B's category: it is in the category of the first
\* rule that matches it without being excluded, which is A or a rule before A.
C2_Precedence ==
  fnPc = "done" =>
    \A i \in DOMAIN fnTools :
      LET U == Unexcluded(fnTools[i])
          M == Matching(fnTools[i])
          dir == DirectoryOf(fnCategories, fnTools[i])
      IN  \A a \in U : \A b \in M :
            a < b =>
              /\ \E f \in U : f <= a /\ (\A g \in U : f <= g) /\ dir = FnRules[f].directory
              /\ dir # FnRules[b].directory

C2_Witness ==
  /\ fnPc = "done"
  /\ \E i \in DOMAIN fnTools :
        \E a \in Unexcluded(fnTools[i]) : \E b \in Matching(fnTools[i]) :
          a < b /\ DirectoryOf(fnCategories, fnTools[i]) = FnRules[a].directory

\* C3, as stated: a tool is in Other if and only if no rule matches it.
C3_Original ==
  fnPc = "done" =>
    \A i \in DOMAIN fnTools :
      DirectoryOf(fnCategories, fnTools[i]) = "other" <=> Matching(fnTools[i]) = {}

\* C3, amended: a tool is in Other if and only if every rule either does not
\* match it or is excluded for it.
C3_Fallback ==
  fnPc = "done" =>
    \A i \in DOMAIN fnTools :
      DirectoryOf(fnCategories, fnTools[i]) = "other" <=> Unexcluded(fnTools[i]) = {}

\* a tool that a rule matches and excludes lands in Other, beside one no rule matches
C3_Witness ==
  /\ fnPc = "done"
  /\ \E i, j \in DOMAIN fnTools :
        /\ DirectoryOf(fnCategories, fnTools[i]) = "other"
        /\ Matching(fnTools[i]) # {}
        /\ DirectoryOf(fnCategories, fnTools[j]) = "other"
        /\ Matching(fnTools[j]) = {}
  /\ \E k \in DOMAIN fnTools : DirectoryOf(fnCategories, fnTools[k]) # "other"

(***************************************************************************)
(* Specification of the client: any callers make up to MaxCalls calls of   *)
(* connect, listTools and disconnect on one wrapper, overlapping or not.   *)
(***************************************************************************)
InitClient ==
  /\ ClientInit
  /\ server \in Servers
  /\ FnIdle
  /\ ConvertIdle

CallConnect ==
  /\ Len(calls) < MaxCalls
  /\ connect(<<"n","p","x">>, << <<"-","y">> >>)
  /\ UNCHANGED << fnVars, convertVars >>

CallListTools ==
  /\ Len(calls) < MaxCalls
  /\ listTools
  /\ UNCHANGED << fnVars, convertVars >>

CallDisconnect ==
  /\ Len(calls) < MaxCalls
  /\ disconnect
  /\ UNCHANGED << fnVars, convertVars >>

\* the settlements of the SDK promises the calls await
Settle ==
  /\ \E c \in DOMAIN calls :
       \/ HandshakeResolve(c)
       \/ HandshakeReject(c)
       \/ ListToolsResponse(c)
       \/ ListToolsReject(c)
       \/ CloseResolve(c)
       \/ CloseReject(c)
  /\ UNCHANGED << fnVars, convertVars >>

NextClient ==
  \/ CallConnect
  \/ CallListTools
  \/ CallDisconnect
  \/ Settle

SpecClient == InitClient /\ [][NextClient]_vars
\* the request cursors a server walks through from the first request on, each
\* reached by the nextCursor of the one before, up to the first response whose
\* nextCursor is no new cursor
RECURSIVE ChainFrom(_, _)
ChainFrom(s, chain) ==
  LET next == s[chain[Len(chain)]].nextCursor
  IN  IF next \in Cursors /\ ~\E i \in DOMAIN chain : chain[i] = next
      THEN ChainFrom(s, Append(chain, next))
      ELSE chain

Chain(s) == ChainFrom(s, << Undefined >>)

\* the server serves its tools in Len(Chain(s)) pages linked by cursors: the
\* last page of the chain carries no cursor
ServesPages(s) == s[Chain(s)[Len(Chain(s))]].nextCursor = Undefined

RECURSIVE ConcatPages(_, _)
ConcatPages(s, chain) ==
  IF chain = <<>> THEN <<>>
  ELSE (IF s[Head(chain)].hasTools THEN s[Head(chain)].tools ELSE <<>>)
         \o ConcatPages(s, Tail(chain))

\* C4: listTools, called on a connected client against a server that serves
\* its tools in k pages linked by cursors, returns the concatenation of the k
\* pages, in page order, each page in server order, having asked for each
\* page once.
C4_AllPages ==
  \A c \in DOMAIN calls :
    (/\ calls[c].op = "listTools"
     /\ calls[c].guardConnected
     /\ calls[c].pc = "returned"
     /\ ServesPages(server))
      => /\ calls[c].result = ConcatPages(server, Chain(server))
         /\ calls[c].requests = Chain(server)

C4_Witness ==
  \E c \in DOMAIN calls :
    /\ calls[c].op = "listTools"
    /\ calls[c].pc = "returned"
    /\ ServesPages(server)
    /\ Len(Chain(server)) = 3
    /\ Len(calls[c].result) = 5

\* C5: once the server has returned a cursor it already returned earlier in
\* the same listTools call, the call has failed with a ProtocolError.
C5_RepeatedCursorFails ==
  \A c \in DOMAIN calls :
    (/\ calls[c].op = "listTools"
     /\ \E i, j \in DOMAIN calls[c].responses :
          /\ i < j
          /\ calls[c].responses[i].nextCursor \in Cursors
          /\ calls[c].responses[i].nextCursor = calls[c].responses[j].nextCursor)
      => calls[c].pc = "threw" /\ calls[c].error = "ProtocolError"

\* C9: listTools called on a client that is not connected fails with the
\* not-connected error and sends no tools/list request.
C9_NotConnected ==
  \A c \in DOMAIN calls :
    (calls[c].op = "listTools" /\ ~calls[c].guardConnected)
      => /\ calls[c].pc = "threw"
         /\ calls[c].error = NotConnected
         /\ calls[c].requests = <<>>
         /\ calls[c].responses = <<>>

\* listTools is refused on a client that was connected and then disconnected
C9_Witness ==
  \E a, b, c \in DOMAIN calls :
    /\ a < b /\ b < c
    /\ calls[a].op = "connect" /\ calls[a].pc = "returned"
    /\ calls[b].op = "disconnect" /\ calls[b].pc = "returned"
    /\ calls[c].op = "listTools" /\ ~calls[c].guardConnected /\ calls[c].pc = "threw"

\* C10: after one call to connect, every later call to connect on the same
\* instance fails with the already-connected error.
C10_SecondConnectFails ==
  \A c, d \in DOMAIN calls :
    (c < d /\ calls[c].op = "connect" /\ calls[d].op = "connect")
      => calls[d].pc = "threw" /\ calls[d].error = AlreadyConnected
(***************************************************************************)
(* convert(): convert.ts:77-170, and the entry point, convert.ts:172-181.  *)
(* The run is a chain of awaits; each action is the code between two of    *)
(* them.  A server subprocess is scoped to one run.                        *)
(***************************************************************************)
\* the calls convert() makes on its wrapper, in the order it makes them
ConnectCall == 1
ListToolsCall == 2
DisconnectCall == 3

\* connectToMCPServer given the masked arguments
connectArgs_Masked(opts) == maskSensitiveArgs(opts.serverArgs)

\* the args of connectToMCPServer(options.serverCommand, options.serverArgs)
connectArgs(opts) == opts.serverArgs

\* serverArgs: options.serverArgs of the metadata
metadataArgs(opts) == opts.serverArgs

\* generateCategorizedInterfaces of schema-parser: a Map with one entry for
\* each category, keyed by the directory of the category, its content the
\* interfaces of the tools of the category, one for each tool
generateCategorizedInterfaces(cats) ==
  [i \in DOMAIN cats |->
     [key |-> cats[i].directory,
      content |-> [k \in DOMAIN cats[i].tools |-> cats[i].tools[k].name]]]

\* createSkillPackage that takes typesContentMap for the content of one file
createSkillPackage_SingleFile(toolList, typesMap) ==
  LET cats == categorizeTools(toolList, 1)
  IN  [documented |-> [i \in DOMAIN cats |->
                         [directory |-> cats[i].directory,
                          tools |-> [k \in DOMAIN cats[i].tools |-> cats[i].tools[k].name]]],
       types |-> <<>>]

\* createSkillPackage (first revision, the one convert() calls): the
\* categories of categorizeTools(tools) are documented in SKILL.md, each with
\* its tools, and scripts/<key>/types.ts is written for every entry of
\* typesContentMap
createSkillPackage(toolList, typesMap) ==
  LET cats == categorizeTools(toolList, 1)
  IN  [documented |-> [i \in DOMAIN cats |->
                         [directory |-> cats[i].directory,
                          tools |-> [k \in DOMAIN cats[i].tools |-> cats[i].tools[k].name]]],
       types |-> [i \in DOMAIN typesMap |->
                    [directory |-> typesMap[i].key, tools |-> typesMap[i].content]]]

\* a catch block that logs the error and lets the run go on
catchExit_Continue ==
  /\ pc' = "packaging"
  /\ exitCode' = exitCode

\* a catch block that ends the process with exit(0)
catchExit_ExitZero ==
  /\ pc' = "exited"
  /\ exitCode' = 0

\* catch (error) { ...; exit(1); }: process.exit ends the process at once, the
\* finally block of the same try statement is not run
catchExit ==
  /\ pc' = "exited"
  /\ exitCode' = 1

\* finally { if (client && client.isConnected()) await client.disconnect(); }
\* up to the await
finally ==
  IF client' = "wrapper" /\ isConnected
  THEN disconnect /\ pc' = "disconnecting" /\ UNCHANGED exitCode
  ELSE /\ pc' = "resolved" /\ exitCode' = 0
       /\ UNCHANGED clientVars

Null == [null |-> TRUE]

\* parseArgs(): null for fewer than two arguments; the command string split
\* on white space.  outputDir, skillName (mcp-skill unless the command
\* contains server-) and skillDescription take no part in what follows
parseArgs(args) ==
  IF Len(args) < 2 THEN Null
  ELSE LET commandParts == split(args[1], SpaceChars, TRUE)
       IN  [serverCommand |-> commandParts[1], serverArgs |-> Tail(commandParts)]

\* the entry point: const options = parseArgs(); if (options) convert(options)
\* else exit(1)
Main ==
  /\ pc = "main"
  /\ IF parseArgs(argv) = Null
     THEN pc' = "exited" /\ exitCode' = 1 /\ UNCHANGED options
     ELSE options' = parseArgs(argv) /\ pc' = "start" /\ UNCHANGED exitCode
  /\ UNCHANGED << fnVars, clientVars, argv, maskedArgs, console, client, tools,
                  categories, metadata, docs, typesContentMap, package >>

\* the logging of the command line, then connectToMCPServer up to the
\* handshake: convert.ts:78-91, mcp-client connectToMCPServer
ConvertStart ==
  /\ pc = "start"
  /\ maskedArgs' = maskSensitiveArgs(options.serverArgs)
  /\ console' = options.serverCommand \o <<" ">> \o Join(maskedArgs', <<" ">>)
  /\ connect(options.serverCommand, connectArgs(options))
  /\ pc' = "connecting"
  /\ UNCHANGED << fnVars, argv, options, client, tools, categories, metadata, docs, typesContentMap, package, exitCode >>

\* connectToMCPServer returned: getServerInfo, then listTools up to its first
\* request: convert.ts:91-103
ConvertConnected ==
  /\ pc = "connecting"
  /\ calls[ConnectCall].pc = "returned"
  /\ client' = "wrapper"
  /\ IF ~connected
     THEN catchExit /\ UNCHANGED clientVars
     ELSE listTools /\ pc' = "listing" /\ UNCHANGED exitCode
  /\ UNCHANGED << fnVars, argv, options, maskedArgs, console, tools, categories, metadata, docs, typesContentMap, package >>

\* connectToMCPServer threw: client stays undefined
ConvertConnectFailed ==
  /\ pc = "connecting"
  /\ calls[ConnectCall].pc = "threw"
  /\ catchExit
  /\ UNCHANGED << fnVars, clientVars, argv, options, maskedArgs, console, client, tools,
                  categories, metadata, docs, typesContentMap, package >>

\* listTools returned: the tools are categorized and interface generation is
\* awaited: convert.ts:103-128
ConvertListed ==
  /\ pc = "listing"
  /\ calls[ListToolsCall].pc = "returned"
  /\ tools' = calls[ListToolsCall].result
  /\ categories' = categorizeTools(tools', 1)
  /\ pc' = "generating"
  /\ UNCHANGED << fnVars, clientVars, argv, options, maskedArgs, console, client, metadata,
                  docs, typesContentMap, package, exitCode >>

\* listTools threw
ConvertListFailed ==
  /\ pc = "listing"
  /\ calls[ListToolsCall].pc = "threw"
  /\ catchExit
  /\ UNCHANGED << fnVars, clientVars, argv, options, maskedArgs, console, client, tools,
                  categories, metadata, docs, typesContentMap, package >>

\* generateCategorizedInterfaces returned: the metadata is built and
\* createSkillPackage is awaited: convert.ts:128-146
ConvertGenerated ==
  /\ pc = "generating"
  /\ typesContentMap' = generateCategorizedInterfaces(categories)
  /\ metadata' = [name |-> "mcp-skill", serverCommand |-> options.serverCommand,
                  serverArgs |-> metadataArgs(options)]
  /\ pc' = "packaging"
  /\ UNCHANGED << fnVars, clientVars, argv, options, maskedArgs, console, client, tools,
                  categories, docs, package, exitCode >>

\* generateCategorizedInterfaces threw
ConvertGenerateFailed ==
  /\ pc = "generating"
  /\ catchExit
  /\ UNCHANGED << fnVars, clientVars, argv, options, maskedArgs, console, client, tools,
                  categories, metadata, docs, typesContentMap, package >>

\* createSkillPackage returned, SKILL.md and README.md written with the
\* command line of formatCommandForDocs; the try block ends and the finally
\* block runs: convert.ts:141-169, skill-generator.ts:192, 365
ConvertPackaged ==
  /\ pc = "packaging"
  /\ docs' = formatCommandForDocs(metadata.serverCommand, metadata.serverArgs)
  /\ package' = createSkillPackage(tools, typesContentMap)
  /\ UNCHANGED client
  /\ finally
  /\ UNCHANGED << fnVars, argv, options, maskedArgs, console, tools, categories,
                  typesContentMap, metadata >>

\* createSkillPackage threw
ConvertPackageFailed ==
  /\ pc = "packaging"
  /\ catchExit
  /\ UNCHANGED << fnVars, clientVars, argv, options, maskedArgs, console, client, tools,
                  categories, metadata, docs, typesContentMap, package >>

\* disconnect returned: convert() resolves and the process ends
ConvertDisconnected ==
  /\ pc = "disconnecting"
  /\ calls[DisconnectCall].pc = "returned"
  /\ pc' = "resolved"
  /\ exitCode' = 0
  /\ UNCHANGED << fnVars, clientVars, argv, options, maskedArgs, console, client, tools,
                  categories, metadata, docs, typesContentMap, package >>

\* disconnect threw in the finally block: convert() rejects, and
\* convert(options).catch(...) exits with 1: convert.ts:175-178
ConvertDisconnectFailed ==
  /\ pc = "disconnecting"
  /\ calls[DisconnectCall].pc = "threw"
  /\ pc' = "rejected"
  /\ exitCode' = 1
  /\ UNCHANGED << fnVars, clientVars, argv, options, maskedArgs, console, client, tools,
                  categories, metadata, docs, typesContentMap, package >>

InitConvert ==
  /\ ClientInit
  /\ server \in ServerCatalogue
  /\ FnIdle
  /\ pc = "main"
  /\ argv \in ArgVectors
  /\ options = NoOptions
  /\ maskedArgs = <<>> /\ console = <<>>
  /\ client = "undefined" /\ tools = <<>> /\ categories = <<>>
  /\ typesContentMap = <<>> /\ metadata = NoMetadata /\ package = NoPackage
  /\ docs = <<>> /\ exitCode = -1

\* the settlements of the SDK promises, while the process runs
ConvertSettle ==
  /\ exitCode = -1
  /\ \E c \in DOMAIN calls :
       \/ HandshakeResolve(c)
       \/ HandshakeReject(c)
       \/ ListToolsResponse(c)
       \/ ListToolsReject(c)
       \/ CloseResolve(c)
       \/ CloseReject(c)
  /\ UNCHANGED << fnVars, convertVars >>

NextConvert ==
  \/ Main
  \/ ConvertStart
  \/ ConvertConnected
  \/ ConvertConnectFailed
  \/ ConvertListed
  \/ ConvertListFailed
  \/ ConvertGenerated
  \/ ConvertGenerateFailed
  \/ ConvertPackaged
  \/ ConvertPackageFailed
  \/ ConvertDisconnected
  \/ ConvertDisconnectFailed
  \/ ConvertSettle

SpecConvert == InitConvert /\ [][NextConvert]_vars

\* C6: whenever convert() has obtained a connected client, disconnect() is
\* performed on it before the run ends, on every exit path.
C6_DisconnectOnEveryExit ==
  (exitCode # -1 /\ client = "wrapper")
    => \E c \in DOMAIN calls : calls[c].op = "disconnect"

\* the length of the variable name of an argument of the shape NAME=value,
\* after its optional -e prefix; 0 if the argument has no such shape
AssignedNameLen(arg) ==
  LET p == PrefixLen(arg)
      n == RunLen(arg, p + 1, NameChars \cup {"0","1","2","3","4","5","6","7","8","9"})
  IN  IF n >= 1 /\ ~IsDigit(arg[p + 1]) /\ p + n + 1 < Len(arg) /\ arg[p + n + 1] = "="
      THEN n ELSE 0

\* an assignment to a variable whose name contains a sensitive word
IsSensitiveAssignment(arg) ==
  LET p == PrefixLen(arg)
      n == AssignedNameLen(arg)
  IN  /\ n >= 1
      /\ \E w \in SensitiveWords : Contains(ToLower(SubSeq(arg, p + 1, p + n)), ToLower(w))

\* the argument with its value replaced by the redaction marker
Redacted(arg) == SubSeq(arg, 1, PrefixLen(arg) + AssignedNameLen(arg) + 1) \o REDACTED

\* C7: every argument NAME=value, with or without -e, whose variable name
\* contains TOKEN, SECRET, KEY, PASSWORD, API_KEY or AUTH in any letter case is
\* shown with its value replaced by ***REDACTED***, on the console and in the
\* generated docs.
C7_EverySensitiveValueMasked ==
  \A i \in DOMAIN options.serverArgs :
    IsSensitiveAssignment(options.serverArgs[i]) =>
      /\ pc # "start" =>
            /\ maskedArgs[i] = Redacted(options.serverArgs[i])
            /\ ~Contains(console, options.serverArgs[i])
      /\ docs # <<>> => ~Contains(docs, options.serverArgs[i])

\* C8: masking changes the displayed text only: the arguments the server is
\* spawned with and the arguments stored in the package metadata are the
\* original serverArgs, element for element.
C8_ArgsPassedUnmasked ==
  /\ transport # NullTransport =>
        transport.args = options.serverArgs /\ transport.command = options.serverCommand
  /\ metadata # NoMetadata => metadata.serverArgs = options.serverArgs

\* a run that masked an argument for display and spawned the server with it
C8_Witness ==
  /\ transport # NullTransport
  /\ metadata # NoMetadata
  /\ docs # <<>>
  /\ \E i \in DOMAIN options.serverArgs : maskedArgs[i] # options.serverArgs[i]

(***************************************************************************)
(* MCPClientWrapper: disconnect and the lifecycle of the wrapper.          *)
(***************************************************************************)
\* a connect call is past its guard and waits for the handshake: the transport
\* it created has been handed to the SDK client
Connecting == \E c \in DOMAIN calls : calls[c].op = "connect" /\ calls[c].pc = "await"

\* nothing is held: the wrapper is not connected, the SDK client holds no open
\* transport and no transport is in its handshake
Released == ~connected /\ ~open /\ ~Connecting

\* no connect call was made after call d
NoConnectSince(d) == \A c \in DOMAIN calls : c > d => calls[c].op # "connect"

\* C11: disconnect never fails when it is called on a wrapper that is not
\* connected (before connect, after a failed connect, after a disconnect), and
\* once a disconnect has returned the transport is released, until connect is
\* called again; a disconnect that follows changes nothing.
C11_DisconnectReleases ==
  \A d \in DOMAIN calls :
    calls[d].op = "disconnect" =>
      /\ ~calls[d].guardConnected => calls[d].pc = "returned"
      /\ (calls[d].pc = "returned" /\ NoConnectSince(d)) => Released

\* the state of the wrapper's lifecycle
Lifecycle ==
  IF connected THEN "Connected"
  ELSE IF Connecting THEN "Connecting"
  ELSE IF \E c \in DOMAIN calls :
            calls[c].op = "disconnect" /\ calls[c].guardConnected /\ calls[c].pc = "returned"
       THEN "Disconnected"
  ELSE IF \E c \in DOMAIN calls :
            calls[c].op = "connect" /\ calls[c].error = "ConnectionError"
       THEN "Failed"
  ELSE "Unconnected"

LifecycleSteps ==
  { << "Unconnected", "Connecting" >>, << "Connecting", "Connected" >>,
    << "Connecting", "Failed" >>, << "Connected", "Disconnected" >> }

\* C12: every step of the wrapper leaves its lifecycle state alone or takes one
\* of the transitions Unconnected -> Connecting -> Connected -> Disconnected
\* and Connecting -> Failed; no step leaves Disconnected or Failed.
C12_Lifecycle ==
  [][Lifecycle' = Lifecycle \/ << Lifecycle, Lifecycle' >> \in LifecycleSteps]_vars

FirstClaim(c) ==
  CHOOSE i \in DOMAIN fnTools :
    /\ \E k \in DOMAIN fnCategories[c].tools : fnCategories[c].tools[k] = fnTools[i]
    /\ \A j \in 1..(i - 1) :
         \A k \in DOMAIN fnCategories[c].tools : fnCategories[c].tools[k] # fnTools[j]

\* C18: the returned categories are in first-claim order: one category comes
\* before another exactly when its first tool comes before the other's first
\* tool in the input, whatever the positions of their rules.
C18_FirstClaimOrder ==
  fnPc = "done" =>
    LET first == [c \in DOMAIN fnCategories |-> FirstClaim(c)]
    IN  \A a, b \in DOMAIN fnCategories : (a < b) <=> (first[a] < first[b])

\* the category of a later rule was claimed first and comes first in the
\* result; Other, which has no rule, comes between two categories of rules
C18_Witness ==
  /\ fnPc = "done"
  /\ Len(fnCategories) = 3
  /\ fnCategories[1].directory = "variables"
  /\ fnCategories[2].directory = "other"
  /\ fnCategories[3].directory = "workspaces"

\* the two tools differ in nothing but the letter case of their name and of
\* their description
SameButCase(a, b) ==
  /\ ToLower(a.name) = ToLower(b.name)
  /\ ToLower(a.description) = ToLower(b.description)

\* C14: the category of a tool does not depend on the letter case of its name
\* or of its description: two tools that differ in letter case only are
\* assigned to the same category.
C14_CaseInsensitive ==
  fnPc = "done" =>
    \A i, j \in DOMAIN fnTools :
      SameButCase(fnTools[i], fnTools[j]) =>
        DirectoryOf(fnCategories, fnTools[i]) = DirectoryOf(fnCategories, fnTools[j])

(***************************************************************************)
(* convert(): the order of its stages and the exit code of the process.    *)
(***************************************************************************)
\* the step moves convert() to position p
Enters(p) == pc' = p /\ pc # p

\* C15: the stages run in the order connect, listTools, categorize, generate
\* interfaces, create package: a stage starts only when the stage before it
\* has completed successfully, nothing runs after a stage has failed, and
\* the package is written only after connection and discovery succeeded.
C15_StageOrder ==
  [][/\ Enters("connecting") => pc = "start"
     /\ Enters("listing") => pc = "connecting" /\ calls[ConnectCall].pc = "returned"
     /\ Enters("generating") =>
          /\ pc = "listing" /\ calls[ListToolsCall].pc = "returned"
          /\ tools' = calls[ListToolsCall].result
          /\ SumLen(categories') = Len(tools')
     /\ Enters("packaging") => pc = "generating"
     /\ docs' # docs => pc = "packaging"
     /\ docs' # <<>> =>
          calls'[ConnectCall].pc = "returned" /\ calls'[ListToolsCall].pc = "returned"
     /\ pc = "exited" =>
          UNCHANGED << calls, tools, categories, metadata, docs >>]_vars

\* discovery failed: the run has ended, nothing was generated or written
C15_Witness ==
  /\ pc = "exited"
  /\ Len(calls) = 2
  /\ calls[ListToolsCall].pc = "threw"
  /\ metadata = NoMetadata
  /\ docs = <<>>

\* C16: the process ends with code 1 when arguments are missing, when a call
\* on the client (connect, listTools, disconnect) failed, and when it ended
\* without a written package; it ends with code 0 only after the package was
\* written and no call failed; a completed discovery, with or without tools,
\* is followed by generation, not by an exit.
C16_ExitCodes ==
  /\ [](/\ exitCode \in {-1, 0, 1}
        /\ (exitCode # -1 /\ Len(argv) < 2) => exitCode = 1
        /\ (exitCode # -1 /\ \E c \in DOMAIN calls : calls[c].pc = "threw") => exitCode = 1
        /\ (exitCode # -1 /\ docs = <<>>) => exitCode = 1
        /\ exitCode = 0 =>
             /\ docs # <<>>
             /\ \A c \in DOMAIN calls : calls[c].pc = "returned")
  /\ [][(pc = "listing" /\ pc' # "listing" /\ calls[ListToolsCall].pc = "returned")
          => (pc' = "generating" /\ exitCode' = -1)]_vars

\* a server without tools: the run has ended with code 0 and a written package
C16_Witness ==
  /\ server = ServerNoTools
  /\ Len(calls) >= ListToolsCall
  /\ calls[ListToolsCall].pc = "returned"
  /\ tools = <<>>
  /\ docs # <<>>
  /\ exitCode = 0

(***************************************************************************)
(* convert(): what is handed to createSkillPackage.                        *)
(***************************************************************************)
\* the (category directory, tool name) pairs of a list of category entries
PairsOf(entries) ==
  UNION { { << entries[i].directory, entries[i].tools[k] >> : k \in DOMAIN entries[i].tools } :
            i \in DOMAIN entries }

DirectoriesOf(entries) == { entries[i].directory : i \in DOMAIN entries }

InitDocs ==
  /\ mdTool \in { [name |-> n, inputSchema |-> schema] : n \in NameCatalogue, schema \in Schemas }
  /\ mdOut = NoSection
  /\ mdPc = "ready"
  /\ fnTools = <<>> /\ fnRevision = 1 /\ fnCategories = <<>> /\ fnPc = "idle"
  /\ MaskIdle
  /\ ClientInit /\ server = ServerNoTools
  /\ ConvertIdle

\* the body of for (const tool of category.tools): the parameters, then the
\* declaration name; an exception of formatSchemaForDocs leaves the loop and
\* generateSkillMarkdown
GenerateToolSection ==
  /\ mdPc = "ready"
  /\ LET parameters == formatSchemaForDocs(mdTool.inputSchema)
     IN  mdOut' = IF parameters.threw
                  THEN [threw |-> TRUE, parameters |-> <<>>, interfaceName |-> <<>>]
                  ELSE [threw |-> FALSE, parameters |-> parameters.text,
                        interfaceName |-> interfaceName(mdTool.name)]
  /\ mdPc' = "done"
  /\ UNCHANGED << mdTool, fnTools, fnRevision, fnCategories, fnPc, maskVars, clientVars, convertVars >>

NextDocs == GenerateToolSection

SpecDocs == InitDocs /\ [][NextDocs]_vars

\* a separator of tool names: every character that is no letter and no
\* digit, or the hyphen and the underscore alone
IsSeparator(c, every) ==
  IF every THEN ~(IsLetter(c) \/ IsDigit(c)) ELSE c \in {"-", "_"}

\* the name without its separators, its first character and every character
\* that follows a separator in upper case
RECURSIVE PascalFrom(_, _, _)
PascalFrom(name, i, every) ==
  IF i > Len(name) THEN <<>>
  ELSE IF IsSeparator(name[i], every) THEN PascalFrom(name, i + 1, every)
  ELSE << IF i = 1 \/ IsSeparator(name[i - 1], every)
          THEN ToUpperChar(name[i]) ELSE name[i] >> \o PascalFrom(name, i + 1, every)

\* the two names differ in their separators only
SameButSeparators(a, b, every) ==
  /\ Len(a) = Len(b)
  /\ \A i \in DOMAIN a :
       a[i] = b[i] \/ (IsSeparator(a[i], every) /\ IsSeparator(b[i], every))

\* C19 as stated: the declaration name is the tool name split on every
\* character that is no letter and no digit, the parts capitalised and
\* joined, and names that differ in such separators only get the same name.
C19_EverySeparator ==
  (mdPc = "done" /\ ~mdOut.threw) =>
    /\ mdOut.interfaceName = PascalFrom(mdTool.name, 1, TRUE)
    /\ \A other \in NameCatalogue :
         SameButSeparators(mdTool.name, other, TRUE) =>
           mdOut.interfaceName = interfaceName(other)

\* C19, amended: the declaration name is the tool name split on every hyphen
\* and every underscore, and on nothing else, the parts joined with their
\* first character in upper case; names that differ only in which of the two
\* separators they use get the same declaration name.
C19_HyphenUnderscore ==
  (mdPc = "done" /\ ~mdOut.threw) =>
    /\ mdOut.interfaceName = PascalFrom(mdTool.name, 1, FALSE)
    /\ \A other \in NameCatalogue :
         SameButSeparators(mdTool.name, other, FALSE) =>
           mdOut.interfaceName = interfaceName(other)

\* get-run was given the declaration name GetRun, that of get_run
C19_Witness ==
  /\ mdPc = "done"
  /\ mdTool.name = <<"g","e","t","-","r","u","n">>
  /\ mdOut.interfaceName = <<"G","e","t","R","u","n">>
  /\ mdOut.interfaceName = interfaceName(<<"g","e","t","_","r","u","n">>)

\* C20: formatSchemaForDocs returns text for every inputSchema, malformed
\* ones included: it never throws.
C20_NeverThrows == mdPc = "done" => ~mdOut.threw

(***************************************************************************)
(* The rule loop of categorizeTools, rule by rule.                         *)
(***************************************************************************)

\* C21: a tool is in the category of rule r exactly when r matches it and is
\* not excluded for it and every rule before r either does not match it or is
\* excluded for it; a rule that matches but is excluded is passed over and
\* the rules after it are still evaluated.
C21_FirstUnexcludedClaims ==
  fnPc = "done" =>
    \A i \in DOMAIN fnTools : \A r \in DOMAIN FnRules :
      LET U == Unexcluded(fnTools[i])
      IN  DirectoryOf(fnCategories, fnTools[i]) = FnRules[r].directory
            <=> (r \in U /\ \A j \in 1..(r - 1) : j \notin U)

\* a tool claimed by a rule that comes after a rule which matches and excludes it
C21_Witness ==
  /\ fnPc = "done"
  /\ \E i \in DOMAIN fnTools :
       \E r \in Unexcluded(fnTools[i]) :
         /\ DirectoryOf(fnCategories, fnTools[i]) = FnRules[r].directory
         /\ \E a \in Matching(fnTools[i]) \cap Excluded(fnTools[i]) : a < r

(***************************************************************************)
(* The pagination loop of listTools, request by request.                   *)
(***************************************************************************)

\* C22: in one listTools call the first tools/list request carries no cursor,
\* and every later request carries the nextCursor of the response immediately
\* before it, unchanged: no request carries a cursor that the previous
\* response did not return.
C22_CursorChain ==
  \A c \in DOMAIN calls :
    calls[c].op = "listTools" =>
      LET requests  == calls[c].requests
          responses == calls[c].responses
      IN  /\ requests # <<>> => requests[1] = Undefined
          /\ Len(requests) <= Len(responses) + 1
          /\ \A k \in 2..Len(requests) :
               /\ responses[k - 1].nextCursor \in Cursors
               /\ requests[k] = responses[k - 1].nextCursor

\* a call that walked through three pages behind two different cursors
C22_Witness ==
  \E c \in DOMAIN calls :
    /\ calls[c].op = "listTools"
    /\ calls[c].pc = "returned"
    /\ Len(calls[c].requests) = 3
    /\ calls[c].requests[2] # calls[c].requests[3]

(***************************************************************************)
(* Termination of listTools.  The continuation of an await runs once the   *)
(* awaited promise has settled, so a response that stays deliverable to a  *)
(* pending call is eventually delivered to it.                             *)
(***************************************************************************)
ResponseDelivered(c) ==
  /\ c \in DOMAIN calls
  /\ ListToolsResponse(c)
  /\ UNCHANGED << fnVars, convertVars >>

\* servers of one, two or three pages, and servers that never end their pages
PagedServers ==
  { s \in Servers : s[Str("c1")].hasTools /\ s[Str("c2")].nextCursor = Undefined }

InitClientLive ==
  /\ ClientInit
  /\ server \in PagedServers
  /\ FnIdle
  /\ ConvertIdle

SpecClientLive ==
  /\ InitClientLive
  /\ [][NextClient]_vars
  /\ \A c \in 1..MaxCalls : WF_vars(ResponseDelivered(c))

\* call c is a listTools call waiting for a page of a server whose pages end
\* with a response without a cursor
PendingList(c) ==
  /\ c \in DOMAIN calls
  /\ calls[c].op = "listTools"
  /\ calls[c].pc = "await"
  /\ ServesPages(server)

\* call c is over, or the connection it waits on was closed under it
ListOver(c) ==
  /\ c \in DOMAIN calls
  /\ calls[c].pc \in {"returned", "threw"} \/ ~open

\* the requests of a listTools call stop at the first response without a
\* cursor: one request for each response, every response but the last with a
\* cursor, and the call returned with the response that has none
StopsAtFirstLastPage ==
  \A c \in DOMAIN calls :
    (calls[c].op = "listTools" /\ ServesPages(server)) =>
      LET requests  == calls[c].requests
          responses == calls[c].responses
      IN  /\ \A k \in 1..(Len(requests) - 1) : responses[k].nextCursor # Undefined
          /\ calls[c].pc = "returned" =>
               /\ Len(requests) = Len(responses)
               /\ responses[Len(responses)].nextCursor = Undefined
          /\ (responses # <<>> /\ responses[Len(responses)].nextCursor = Undefined)
               => calls[c].pc = "returned"

\* C23: against a server that returns a response without a cursor after
\* finitely many pages, a listTools call whose requests are answered
\* eventually returns (it is over earlier only if a request fails or the
\* connection is closed under it), and it stops at the first response without
\* a nextCursor, having sent one request for each page and none after it.
C23_Terminates ==
  /\ []StopsAtFirstLastPage
  /\ \A c \in 1..MaxCalls : PendingList(c) ~> ListOver(c)

C23_Witness ==
  \E c \in DOMAIN calls :
    /\ calls[c].op = "listTools"
    /\ ServesPages(server)
    /\ calls[c].pc = "returned"
    /\ Len(calls[c].responses) = 3
    /\ calls[c].responses[3].nextCursor = Undefined

(***************************************************************************)
(* What the exclude patterns and the two revisions of the rules decide.    *)
(***************************************************************************)
\* for each catalogue tool, whether its name or its description contains the word
Mentions(word) ==
  [k \in DOMAIN ToolCatalogue |->
     Contains(ToolCatalogue[k].name, word) \/ Contains(ToolCatalogue[k].description, word)]

MentionsVariable == Mentions(<<"v","a","r","i","a","b","l","e">>)

\* C24: a tool whose name or description contains "variable" is never in the
\* Workspaces category, whatever the tool list, also when it matches the
\* workspace pattern.
C24_VariableNotInWorkspaces ==
  fnPc = "done" =>
    \A i \in DOMAIN fnTools :
      MentionsVariable[CatalogueIndex(fnTools[i])]
        => DirectoryOf(fnCategories, fnTools[i]) # "workspaces"

\* a tool that matches the workspace pattern and mentions a variable is in
\* Variables, beside a tool that is in Workspaces
C24_Witness ==
  /\ fnPc = "done"
  /\ \E i, j \in DOMAIN fnTools :
       /\ MentionsVariable[CatalogueIndex(fnTools[i])]
       /\ \E r \in Matching(fnTools[i]) : FnRules[r].directory = "workspaces"
       /\ DirectoryOf(fnCategories, fnTools[i]) = "variables"
       /\ DirectoryOf(fnCategories, fnTools[j]) = "workspaces"

\* C25: every category that categorizeTools returns holds at least one tool,
\* so categories[0].tools[0] is defined whenever generateSkillMarkdown takes
\* the branch of a non-empty category list; an empty tool list yields an
\* empty category list, which takes the flat-list branch.
C25_NoEmptyCategory ==
  fnPc = "done" =>
    /\ \A c \in DOMAIN fnCategories : fnCategories[c].tools # <<>>
    /\ usesCategories(fnCategories) => exampleTool(fnCategories) = fnCategories[1].tools[1]
    /\ fnTools = <<>> => (fnCategories = <<>> /\ ~usesCategories(fnCategories))

\* the example is read from a first category that is Other
C25_Witness ==
  /\ fnPc = "done"
  /\ usesCategories(fnCategories)
  /\ fnCategories[1].directory = "other"
  /\ Len(fnCategories) = 2
  /\ exampleTool(fnCategories) = fnTools[1]

\* for each revision and catalogue tool, the directory of the category that
\* the revision's rules give the tool
AssignedTable ==
  [rev \in {1, 2} |-> [k \in DOMAIN ToolCatalogue |->
     LET r == claimingRule(categoryRules(rev), ToolCatalogue[k])
     IN  IF r = 0 THEN OtherCategory.directory ELSE categoryRules(rev)[r].directory]]

\* for each catalogue tool, whether /tag/i matches its name or its description
MatchesTag ==
  [k \in DOMAIN ToolCatalogue |->
     testTool(Pattern({ <<"t","a","g">> }, FALSE, TRUE), ToolCatalogue[k])]

PendingConnects ==
  { c \in DOMAIN calls :
      calls[c].op = "connect" /\ calls[c].pc = "await" /\ calls[c].transport # 0 }

\* C26: of two connect calls that overlap, the second issued while the first
\* awaits the handshake, at most one passes the already-connected guard: no
\* two transports are pending at once.
C26_OnePendingConnect == Cardinality(PendingConnects) <= 1

\* what the listTools calls made so far show: a failed call has no result,
\* every call began with a request without cursor, and the calls that returned
\* returned equal lists
ListToolsStateless ==
  \A c \in DOMAIN calls :
    calls[c].op = "listTools" =>
      /\ calls[c].pc = "threw" => calls[c].result = <<>>
      /\ calls[c].requests # <<>> => calls[c].requests[1] = Undefined
      /\ \A d \in DOMAIN calls :
           (calls[d].op = "listTools" /\ calls[c].pc = "returned" /\ calls[d].pc = "returned")
             => calls[c].result = calls[d].result

\* a step of a listTools call (its start, a response, its failure) leaves
\* the connected flag and the transport as they were
ListToolsFrame ==
  \A c \in DOMAIN calls' :
    (calls'[c].op = "listTools" /\ (c \notin DOMAIN calls \/ calls'[c] # calls[c]))
      => /\ connected' = connected
         /\ transport' = transport
         /\ open' = open

\* C27: listTools keeps no state between calls: a call that fails part-way
\* through its pages returns no partial list and leaves the connected flag
\* unchanged, every call starts from the first page with no cursor, after a
\* failed call as after a successful one, and two calls against the same
\* server return equal lists.
C27_NoStateBetweenCalls == []ListToolsStateless /\ [][ListToolsFrame]_vars

\* a call failed after its first page, and the call after it returned all pages
C27_Witness ==
  \E c, d \in DOMAIN calls :
    /\ c < d
    /\ calls[c].op = "listTools" /\ calls[c].pc = "threw"
    /\ calls[c].responses # <<>>
    /\ calls[d].op = "listTools" /\ calls[d].pc = "returned"
    /\ Len(calls[d].requests) >= 2
    /\ calls[d].result = ConcatPages(server, Chain(server))
    /\ connected

\* C28: an empty-string nextCursor ends the pages as an absent one does: the
\* response that carries it is the last of its call, and the call returns
\* what it gathered, having asked for the pages of the chain and no more; a
\* response without a tools field adds no tools, and its cursor is followed.
C28_EmptyCursorEnds ==
  \A c \in DOMAIN calls :
    calls[c].op = "listTools" =>
      LET requests  == calls[c].requests
          responses == calls[c].responses
      IN  \A k \in DOMAIN responses :
            /\ responses[k].nextCursor \in { Str(""), Undefined } =>
                 /\ k = Len(responses)
                 /\ Len(requests) = k
                 /\ calls[c].pc = "returned"
                 /\ requests = Chain(server)
                 /\ calls[c].result = ConcatPages(server, Chain(server))
            /\ (~responses[k].hasTools /\ responses[k].nextCursor \in Cursors) =>
                 /\ Len(requests) > k
                 /\ requests[k + 1] = responses[k].nextCursor
                 /\ calls[c].allTools = ConcatPages(server, SubSeq(requests, 1, Len(responses)))

\* a call that followed the cursor of a response without tools field and
\* stopped at an empty-string cursor
C28_Witness ==
  \E c \in DOMAIN calls :
    /\ calls[c].op = "listTools"
    /\ calls[c].pc = "returned"
    /\ Len(calls[c].responses) = 3
    /\ ~calls[c].responses[2].hasTools
    /\ calls[c].responses[3].nextCursor = Str("")
    /\ calls[c].result = Page0 \o Page2

(***************************************************************************)
(* Specification of maskSensitiveArgs: every argument list of the          *)
(* catalogue is masked, and the list that comes back is masked again.      *)
(***************************************************************************)
InitMask ==
  /\ maskInput \in ArgLists
  /\ maskOutput = <<>>
  /\ maskAgain = <<>>
  /\ maskPc = "ready"
  /\ fnTools = <<>> /\ fnRevision = 1 /\ fnCategories = <<>> /\ fnPc = "idle"
  /\ DocsIdle
  /\ ClientInit /\ server = ServerNoTools
  /\ ConvertIdle

\* maskSensitiveArgs(args): args.map builds a new array and leaves args alone
MaskSensitiveArgs ==
  /\ maskPc = "ready"
  /\ maskOutput' = maskSensitiveArgs(maskInput)
  /\ maskPc' = "once"
  /\ UNCHANGED << maskInput, maskAgain, fnTools, fnRevision, fnCategories, fnPc,
                  mdTool, mdOut, mdPc, clientVars, convertVars >>

\* maskSensitiveArgs applied to the array the first call returned
MaskSensitiveArgsAgain ==
  /\ maskPc = "once"
  /\ maskAgain' = maskSensitiveArgs(maskOutput)
  /\ maskPc' = "twice"
  /\ UNCHANGED << maskInput, maskOutput, fnTools, fnRevision, fnCategories, fnPc,
                  mdTool, mdOut, mdPc, clientVars, convertVars >>

NextMask == MaskSensitiveArgs \/ MaskSensitiveArgsAgain

SpecMask == InitMask /\ [][NextMask]_vars

\* the result has the length and the order of the input: an argument that the
\* pattern does not match is returned as it is, and a masked one keeps, at its
\* place, its prefix and its variable name; masking the result changes nothing
MaskShape ==
  /\ maskPc \in {"once", "twice"} =>
       /\ Len(maskOutput) = Len(maskInput)
       /\ \A i \in DOMAIN maskInput :
            LET m == envVarMatch(maskInput[i])
            IN  IF m.matched
                THEN StartsWith(maskOutput[i], m.prefix \o m.varName \o <<"=">>)
                ELSE maskOutput[i] = maskInput[i]
  /\ maskPc = "twice" => maskAgain = maskOutput

\* C29: maskSensitiveArgs is idempotent and keeps the shape of its input:
\* masking a masked list returns the same list, the result has the length and
\* the order of the input, the input array is not changed by the call, and
\* every argument that the sensitive pattern does not match is returned
\* unchanged.
C29_IdempotentShapePreserving == []MaskShape /\ [][maskInput' = maskInput]_vars

\* a list of a sensitive assignment behind -e and of an argument that is no
\* assignment, masked twice
C29_Witness ==
  /\ maskPc = "twice"
  /\ Len(maskInput) = 2
  /\ envVarMatch(maskInput[1]).matched
  /\ envVarMatch(maskInput[1]).prefix # <<>>
  /\ ~envVarMatch(maskInput[2]).matched
  /\ maskOutput[1] # maskInput[1]
  /\ maskAgain = maskOutput

====
